---- MODULE Spec2Model ----
(***************************************************************************)
(* Model of the bias-aggregation pipeline of the wikibias repository.      *)
(*                                                                         *)
(* SemanticAnalyzer.analyze_content (src/semantic.py) samples an external  *)
(* oracle `runs` times, locates every reported phrase in the content with  *)
(* str.find, numbers the located findings and folds them into a heatmap    *)
(* keyed by the lower-cased phrase.                                        *)
(*                                                                         *)
(* Strings are sequences of characters over Alphabet; offsets are 0-based  *)
(* as in Python, and -1 is str.find's "not found".                         *)
(*                                                                         *)
(* Spec     : SemanticAnalyzer.analyze_content                             *)
(* SpecSeg  : ContentProcessor.chunk_content (src/utils/wiki_parsing.py)   *)
(* SpecEdit : Investigator.create_final_content (src/main.py)              *)
(* SpecSvc  : WikipediaService and its routes (src/wikipedia-bias-analyzer) *)
(***************************************************************************)
EXTENDS Integers, Sequences, FiniteSets, TLC

\* ------------------------------------------------------------------ bounds
MaxDocLen == 2
MaxPhraseLen == 2
MaxRuns == 2
MaxFindings == 2

\* ----------------------------------------------------------------- strings
\* One letter in both cases and a whitespace character: enough for
\* str.lower() and for leading/trailing whitespace to matter.
Alphabet == {"a", "A", " "}

StringsUpTo(n) == UNION {[1..k -> Alphabet] : k \in 0..n}

Documents == StringsUpTo(MaxDocLen)

Phrases == StringsUpTo(MaxPhraseLen)

\* What one oracle call can answer: analysis.detected_biases, each finding
\* reduced to its biased_phrase (the only field the aggregation reads).
Responses == UNION {[1..k -> Phrases] : k \in 0..MaxFindings}

Min(S) == CHOOSE x \in S : \A y \in S : x <= y

\* str.lower() on one character.
LowerChar(c) == IF c = "A" THEN "a" ELSE c

\* str.lower()
lower(s) == [k \in 1..Len(s) |-> LowerChar(s[k])]

\* Mutant of find: the highest offset at which sub occurs (str.rfind).
findLast(content_, sub) ==
    LET hits == {p \in 0..(Len(content_) - Len(sub)) :
                    \A k \in 1..Len(sub) : content_[p + k] = sub[k]}
    IN  IF hits = {} THEN -1 ELSE CHOOSE x \in hits : \A y \in hits : y <= x

\* str.find(sub): the lowest 0-based offset at which sub occurs, -1 if none.
find(content_, sub) ==
    LET hits == {p \in 0..(Len(content_) - Len(sub)) :
                    \A k \in 1..Len(sub) : content_[p + k] = sub[k]}
    IN  IF hits = {} THEN -1 ELSE Min(hits)

\* ------------------------------------------------------------------- state
VARIABLES
    content,              \* the document under analysis (argument)
    runs,                 \* the sample count (argument)
    pc,                   \* "call" | "loop" | "done" | "raised"
    i,                    \* index of the outer loop: samples completed
    analysis,             \* detected_biases of the current response
    j,                    \* findings of the current response already processed
    analyses,             \* every response received so far
    bias_instances,       \* located findings, each with its bias_id
    bias_phrase_heatmap,  \* lower-cased phrase -> BiasPhraseMetadata
    bias_index,           \* the next bias_id
    result,               \* what the call returned: <<>> until it returns
    failed                \* history: number of oracle calls that raised

aggVars == <<content, runs, pc, i, analysis, j, analyses, bias_instances,
             bias_phrase_heatmap, bias_index, result, failed>>

\* ContentProcessor.chunk_content (src/utils/wiki_parsing.py)
VARIABLES
    markdown_text,        \* the text to segment (argument)
    seg_pc,               \* "idle" | "start" | "loop" | "done"
    paragraphs,           \* markdown_text.split('\n\n')
    para,                 \* paragraphs already visited by the loop
    sections,             \* section name -> section body
    current_section,      \* the name the next body blocks are filed under
    current_content       \* the body blocks collected for current_section

segVars == <<markdown_text, seg_pc, paragraphs, para, sections,
             current_section, current_content>>

\* Investigator.create_final_content (src/main.py)
VARIABLES
    original_content,     \* the content to correct (argument)
    corrections,          \* the suggested corrections of passage_analysis
    edit_pc,              \* "idle" | "call" | "done" | "raised"
    final_content         \* the text the call returned

editVars == <<original_content, corrections, edit_pc, final_content>>

\* WikipediaService and the routes of app/api/routes/wikipedia.py
VARIABLES
    pages,                \* the committed rows of wikipedia_pages: id -> row
    next_id,              \* the next value of the primary-key sequence
    clock,                \* datetime.utcnow(), counted in readings
    calls                 \* the requests received so far, each with its state

svcVars == <<pages, next_id, clock, calls>>

vars == <<aggVars, segVars, editVars, svcVars>>

\* The empty dict.
EmptyMap == [k \in {} |-> 0]

\* dict[key] = value
Put(map, key, value) ==
    [k \in (DOMAIN map) \cup {key} |-> IF k = key THEN value ELSE map[k]]

\* No aggregation is running.
AggIdle ==
    /\ content = <<>>
    /\ runs = 0
    /\ pc = "idle"
    /\ i = 0
    /\ analysis = <<>>
    /\ j = 0
    /\ analyses = <<>>
    /\ bias_instances = <<>>
    /\ bias_phrase_heatmap = EmptyMap
    /\ bias_index = 0
    /\ result = <<>>
    /\ failed = 0

\* No segmentation is running.
SegIdle ==
    /\ markdown_text = <<>>
    /\ seg_pc = "idle"
    /\ paragraphs = <<>>
    /\ para = 0
    /\ sections = EmptyMap
    /\ current_section = <<>>
    /\ current_content = <<>>

\* No correction is being applied.
EditIdle ==
    /\ original_content = <<>>
    /\ corrections = <<>>
    /\ edit_pc = "idle"
    /\ final_content = <<>>

\* No request has been received and the table is empty.
SvcIdle ==
    /\ pages = EmptyMap
    /\ next_id = 1
    /\ clock = 0
    /\ calls = <<>>

\* ------------------------------------------------- the body of the inner loop
\* BiasInstanceWithMetadata(bias_instance=bias, bias_id=bias_index)
BiasInstanceWithMetadata(phrase, id) ==
    [bias_id |-> id, biased_phrase |-> phrase]

\* Mutant of Located: the "not found" value passes the test.
LocatedOffByOne(content_index) == content_index # -2

\* if content_index != -1
Located(content_index) == content_index # -1

\* The key under which a phrase is filed in the heatmap.
HeatmapKey(phrase) == lower(phrase)

\* Mutant of NeedsNewBucket: the recorded offset is not compared.
NeedsNewBucketByKeyOnly(heatmap, phrase, content_index) ==
    HeatmapKey(phrase) \notin DOMAIN heatmap

\* The condition of line 86: no bucket under the key, or a bucket recorded at
\* another offset.
NeedsNewBucket(heatmap, phrase, content_index) ==
    \/ HeatmapKey(phrase) \notin DOMAIN heatmap
    \/ heatmap[HeatmapKey(phrase)].index # content_index

\* Lines 87-92: the dict entry of the key is assigned a fresh bucket.
CreateBucket(heatmap, phrase, content_index, id) ==
    Put(heatmap, HeatmapKey(phrase),
        [occurrence_count |-> 1,
         index            |-> content_index,
         bias_phrase      |-> phrase,
         bias_instances   |-> <<id>>])

\* Mutant of JoinBucket: the count is raised but the id is not recorded.
JoinBucketWithoutId(heatmap, phrase, id) ==
    LET old == heatmap[HeatmapKey(phrase)]
    IN  Put(heatmap, HeatmapKey(phrase),
            [old EXCEPT !.occurrence_count = @ + 1])

\* Mutant of JoinBucket: the id is put at the front of the list.
JoinBucketAtFront(heatmap, phrase, id) ==
    LET old == heatmap[HeatmapKey(phrase)]
    IN  Put(heatmap, HeatmapKey(phrase),
            [old EXCEPT !.occurrence_count = @ + 1,
                        !.bias_instances   = <<id>> \o @])

\* Lines 94-95: the bucket of the key counts one more and records the id.
JoinBucket(heatmap, phrase, id) ==
    LET old == heatmap[HeatmapKey(phrase)]
    IN  Put(heatmap, HeatmapKey(phrase),
            [old EXCEPT !.occurrence_count = @ + 1,
                        !.bias_instances   = Append(@, id)])

\* Mutant of NextBiasIndex: the counter is not advanced.
NextBiasIndexStuck(id) == id

\* bias_index += 1
NextBiasIndex(id) == id + 1

\* Mutant of ProcessBias: the counter also advances for a finding that is
\* not located.
ProcessBiasCountingAbsent(acc, content_, phrase) ==
    LET content_index == find(content_, phrase)
    IN  IF Located(content_index)
        THEN [bias_instances |->
                 Append(acc.bias_instances,
                        BiasInstanceWithMetadata(phrase, acc.bias_index)),
              bias_phrase_heatmap |->
                 IF NeedsNewBucket(acc.bias_phrase_heatmap, phrase, content_index)
                 THEN CreateBucket(acc.bias_phrase_heatmap, phrase,
                                   content_index, acc.bias_index)
                 ELSE JoinBucket(acc.bias_phrase_heatmap, phrase, acc.bias_index),
              bias_index |-> NextBiasIndex(acc.bias_index)]
        ELSE [acc EXCEPT !.bias_index = NextBiasIndex(@)]

\* Lines 79-96 for one finding, on the three accumulators.
ProcessBias(acc, content_, phrase) ==
    LET content_index == find(content_, phrase)
    IN  IF Located(content_index)
        THEN [bias_instances |->
                 Append(acc.bias_instances,
                        BiasInstanceWithMetadata(phrase, acc.bias_index)),
              bias_phrase_heatmap |->
                 IF NeedsNewBucket(acc.bias_phrase_heatmap, phrase, content_index)
                 THEN CreateBucket(acc.bias_phrase_heatmap, phrase,
                                   content_index, acc.bias_index)
                 ELSE JoinBucket(acc.bias_phrase_heatmap, phrase, acc.bias_index),
              bias_index |-> NextBiasIndex(acc.bias_index)]
        ELSE acc

\* Lines 56-58: the accumulators before the first sample.
EmptyAcc ==
    [bias_instances |-> <<>>, bias_phrase_heatmap |-> EmptyMap, bias_index |-> 0]

\* ------------------------------------------------------------------ actions
Init ==
    /\ content \in Documents
    /\ runs \in 0..MaxRuns
    /\ pc = "call"
    /\ i = 0
    /\ analysis = <<>>
    /\ j = 0
    /\ analyses = <<>>
    /\ bias_instances = EmptyAcc.bias_instances
    /\ bias_phrase_heatmap = EmptyAcc.bias_phrase_heatmap
    /\ bias_index = EmptyAcc.bias_index
    /\ result = <<>>
    /\ failed = 0
    /\ SegIdle
    /\ EditIdle
    /\ SvcIdle

\* Lines 59-75: the oracle answers the i-th call.
OracleAnswers ==
    /\ pc = "call"
    /\ i < runs
    /\ \E response \in Responses :
          /\ analysis' = response
          /\ analyses' = Append(analyses, response)
    /\ j' = 0
    /\ pc' = "loop"
    /\ UNCHANGED <<content, runs, i, bias_instances, bias_phrase_heatmap,
                   bias_index, result, failed>>
    /\ UNCHANGED <<segVars, editVars, svcVars>>

\* Lines 60-74: the oracle call raises (or the response has no parsed
\* analysis); nothing catches it, so it leaves analyze_content.
OracleRaises ==
    /\ pc = "call"
    /\ i < runs
    /\ pc' = "raised"
    /\ failed' = failed + 1
    /\ UNCHANGED <<content, runs, i, analysis, j, analyses, bias_instances,
                   bias_phrase_heatmap, bias_index, result>>
    /\ UNCHANGED <<segVars, editVars, svcVars>>

\* Lines 78-96: one iteration of the inner loop.
ProcessFinding ==
    /\ pc = "loop"
    /\ j < Len(analysis)
    /\ LET acc == ProcessBias(
                      [bias_instances      |-> bias_instances,
                       bias_phrase_heatmap |-> bias_phrase_heatmap,
                       bias_index          |-> bias_index],
                      content, analysis[j + 1])
       IN  /\ bias_instances' = acc.bias_instances
           /\ bias_phrase_heatmap' = acc.bias_phrase_heatmap
           /\ bias_index' = acc.bias_index
    /\ j' = j + 1
    /\ UNCHANGED <<content, runs, pc, i, analysis, analyses, result, failed>>
    /\ UNCHANGED <<segVars, editVars, svcVars>>

\* Line 78 exhausted: back to the head of the outer loop.
EndSample ==
    /\ pc = "loop"
    /\ j = Len(analysis)
    /\ i' = i + 1
    /\ pc' = "call"
    /\ UNCHANGED <<content, runs, analysis, j, analyses, bias_instances,
                   bias_phrase_heatmap, bias_index, result, failed>>
    /\ UNCHANGED <<segVars, editVars, svcVars>>

\* Line 122: return bias_instances, bias_phrase_heatmap
Return ==
    /\ pc = "call"
    /\ i = runs
    /\ result' = <<bias_instances, bias_phrase_heatmap>>
    /\ pc' = "done"
    /\ UNCHANGED <<content, runs, i, analysis, j, analyses, bias_instances,
                   bias_phrase_heatmap, bias_index, failed>>
    /\ UNCHANGED <<segVars, editVars, svcVars>>

Next ==
    \/ OracleAnswers
    \/ OracleRaises
    \/ ProcessFinding
    \/ EndSample
    \/ Return

Spec == Init /\ [][Next]_vars

\* ------------------------------------------------------- derived quantities
Terminated == pc \in {"done", "raised"}

\* The phrases of the findings processed so far that occur in the content,
\* in processing order: samples in call order, each sample's list in order.
RECURSIVE Flatten(_)
Flatten(lists) ==
    IF lists = <<>> THEN <<>>
    ELSE Flatten(SubSeq(lists, 1, Len(lists) - 1)) \o lists[Len(lists)]

\* The (key, offset) pair of a phrase that occurs in the content.
Pair(phrase) == <<lower(phrase), find(content, phrase)>>

\* The ids a bucket holds.
IdsOf(bucket) == {bucket.bias_instances[k] : k \in DOMAIN bucket.bias_instances}

\* C1: at the end of a run every bucket's occurrence_count is the length of
\* its contribution list, and every id of the returned finding list is in the
\* contribution list of exactly one bucket of the returned heatmap.
C1_CountsAndIdsPartition ==
    pc = "done" =>
        LET findings == result[1]
            heatmap  == result[2]
        IN  /\ \A key \in DOMAIN heatmap :
                  heatmap[key].occurrence_count = Len(heatmap[key].bias_instances)
            /\ \A k \in DOMAIN findings :
                  Cardinality({key \in DOMAIN heatmap :
                                  findings[k].bias_id \in IdsOf(heatmap[key])}) = 1

\* The phrases of the findings received so far that occur in the content, in
\* the order the loops visit them.
LocatedPhrases == SelectSeq(Flatten(analyses), LAMBDA p : find(content, p) # -1)

\* How many located findings have the (key, offset) pair of phrase p.
PairCount(p) ==
    Cardinality({k \in DOMAIN LocatedPhrases : Pair(LocatedPhrases[k]) = Pair(p)})

\* C2: a located finding whose key has a bucket at another offset gets a
\* bucket of its own and the earlier bucket stays; so at the end of the run
\* every distinct (key, offset) pair among the located findings has its
\* bucket, whose occurrence_count is the number of located findings with
\* that pair.
C2_OneBucketPerKeyAndOffset ==
    pc = "done" =>
        \A k \in DOMAIN LocatedPhrases :
            LET p == LocatedPhrases[k]
            IN  /\ lower(p) \in DOMAIN result[2]
                /\ result[2][lower(p)].index = find(content, p)
                /\ result[2][lower(p)].occurrence_count = PairCount(p)

\* C3: a finding whose phrase is not a substring of the content is dropped:
\* processing it leaves the finding list, the heatmap and the id counter as
\* they were, and the returned list holds only phrases of the content.
C3_AbsentFindingDiscarded ==
    /\ [][(pc = "loop" /\ j < Len(analysis) /\ find(content, analysis[j + 1]) = -1)
            => /\ bias_instances' = bias_instances
               /\ bias_phrase_heatmap' = bias_phrase_heatmap
               /\ bias_index' = bias_index]_vars
    /\ [](pc = "done" =>
            /\ Len(result[1]) = Len(LocatedPhrases)
            /\ \A k \in DOMAIN result[1] :
                  find(content, result[1][k].biased_phrase) # -1)

\* A run returned after dropping an absent finding and keeping a located one.
C3_Witness ==
    /\ pc = "done"
    /\ Len(result[1]) > 0
    /\ Len(Flatten(analyses)) > Len(LocatedPhrases)

\* C4: a failed oracle call costs its own sample only: the run goes on with
\* the remaining samples and returns what the successful samples found.
C4_FailedSampleSkipped ==
    failed > 0 =>
        /\ pc # "raised"
        /\ pc = "done" => (i = runs /\ Len(result) = 2)

\* C5: the result of a finished run carries the number of successful and of
\* failed oracle calls next to the findings and the heatmap.
C5_ResultExposesCallCounts ==
    (Terminated /\ runs >= 1) =>
        /\ Len(result) >= 4
        /\ result[3] = Len(analyses)
        /\ result[4] = failed

\* ----------------------------------------------- the run as a fold, reordered
\* The accumulators after the loop body has run on each phrase in turn.
RECURSIVE Aggregate(_, _)
Aggregate(content_, phrases) ==
    IF phrases = <<>> THEN EmptyAcc
    ELSE ProcessBias(Aggregate(content_, SubSeq(phrases, 1, Len(phrases) - 1)),
                     content_, phrases[Len(phrases)])

\* For each position of Flatten(lists), the sample the finding came from.
RECURSIVE SampleTags(_)
SampleTags(lists) ==
    IF lists = <<>> THEN <<>>
    ELSE SampleTags(SubSeq(lists, 1, Len(lists) - 1))
            \o [k \in 1..Len(lists[Len(lists)]) |-> Len(lists)]

\* The orders in which the findings of the samples can be processed when the
\* samples run side by side: f[a] is the position, in call order, of the
\* finding processed a-th; each sample's own findings keep their order.
Interleavings(lists) ==
    LET n    == Len(Flatten(lists))
        tags == SampleTags(lists)
    IN  {f \in [1..n -> 1..n] :
            /\ \A a, b \in 1..n : a # b => f[a] # f[b]
            /\ \A a, b \in 1..n :
                  (a < b /\ tags[f[a]] = tags[f[b]]) => f[a] < f[b]}

\* A heatmap as the set of its buckets (key, offset, count).
Buckets(heatmap) ==
    {<<key, heatmap[key].index, heatmap[key].occurrence_count>> :
        key \in DOMAIN heatmap}

\* C6: the heatmap does not depend on the order in which the samples'
\* findings are processed: every interleaving of the samples' findings, each
\* finding handled atomically, ends with the same set of buckets.
C6_OrderIndependent ==
    pc = "done" =>
        \A f \in Interleavings(analyses) :
            LET flat == Flatten(analyses)
                reordered == [a \in 1..Len(flat) |-> flat[f[a]]]
            IN  Buckets(Aggregate(content, reordered).bias_phrase_heatmap)
                    = Buckets(result[2])

\* Every bucket of the returned heatmap counts one occurrence.
AllCountsOne ==
    \A key \in DOMAIN result[2] : result[2][key].occurrence_count = 1

\* C7 as stated: with one sample every bucket has occurrence_count 1,
\* whatever list the single oracle call returns.
C7_SingleSampleCountsOne_Original ==
    (pc = "done" /\ runs = 1) => AllCountsOne

\* No phrase of the content is reported twice by the findings so far.
NoRepeatedPhrase ==
    \A a, b \in DOMAIN LocatedPhrases :
        a # b => LocatedPhrases[a] # LocatedPhrases[b]

\* C7 (amended): with one sample every bucket has occurrence_count 1,
\* provided the single call's list reports no phrase of the content twice.
C7_SingleSampleCountsOne ==
    (pc = "done" /\ runs = 1 /\ NoRepeatedPhrase) => AllCountsOne

\* A one-sample run returned two different located phrases.
C7_Witness ==
    /\ pc = "done"
    /\ runs = 1
    /\ NoRepeatedPhrase
    /\ Len(result[1]) = 2

\* Every sample answered with the one finding p, which occurs in the content.
AllSamplesReport(p) ==
    /\ Len(analyses) = runs
    /\ \A s \in 1..runs : analyses[s] = <<p>>
    /\ find(content, p) # -1

\* C8: N >= 1 samples that each return the same single located finding give
\* exactly one bucket, with occurrence_count N and N distinct ids.
C8_IdenticalSamplesOneBucket ==
    \A p \in Phrases :
        (pc = "done" /\ runs >= 1 /\ AllSamplesReport(p)) =>
            /\ DOMAIN result[2] = {lower(p)}
            /\ result[2][lower(p)].occurrence_count = runs
            /\ Len(result[2][lower(p)].bias_instances) = runs
            /\ Cardinality(IdsOf(result[2][lower(p)])) = runs

\* A run of at least two samples, all reporting the same located phrase.
C8_Witness ==
    /\ pc = "done"
    /\ runs >= 2
    /\ \E p \in Phrases : Len(p) > 0 /\ AllSamplesReport(p)

\* C9: the ids of the located findings strictly increase in the order they
\* were assigned, so none is assigned twice, and the next id is above all.
C9_IdsStrictlyIncreasing ==
    /\ \A a, b \in DOMAIN bias_instances :
          a < b => bias_instances[a].bias_id < bias_instances[b].bias_id
    /\ \A a \in DOMAIN bias_instances : bias_instances[a].bias_id < bias_index

\* Three ids have been assigned.
C9_Witness == Len(bias_instances) >= 3

\* str.strip() for the whitespace of Alphabet.
RECURSIVE Strip(_)
Strip(s) ==
    IF s = <<>> THEN s
    ELSE IF s[1] = " " THEN Strip(SubSeq(s, 2, Len(s)))
    ELSE IF s[Len(s)] = " " THEN Strip(SubSeq(s, 1, Len(s) - 1))
    ELSE s

\* The normalized phrase: case-folded and whitespace-trimmed.
Normalized(phrase) == Strip(lower(phrase))

\* C10: two located findings whose phrases differ only in letter case or in
\* leading/trailing whitespace, and which resolve to the same offset, are
\* counted in the same bucket.
C10_NormalizedKeySharesBucket ==
    pc = "done" =>
        \A a, b \in DOMAIN result[1] :
            LET pa == result[1][a].biased_phrase
                pb == result[1][b].biased_phrase
            IN  (/\ pa # pb
                 /\ Normalized(pa) # <<>>
                 /\ Normalized(pa) = Normalized(pb)
                 /\ find(content, pa) = find(content, pb))
                => \E key \in DOMAIN result[2] :
                      {result[1][a].bias_id, result[1][b].bias_id}
                          \subseteq IdsOf(result[2][key])

\* ------------------------------------------------------- offset resolution
\* The phrase stands verbatim in the document at 0-based position pos.
OccursAt(doc, phrase, pos) ==
    /\ pos >= 0
    /\ pos + Len(phrase) <= Len(doc)
    /\ SubSeq(doc, pos + 1, pos + Len(phrase)) = phrase

\* The phrase stands verbatim somewhere in the document.
Occurs(doc, phrase) == \E pos \in 0..Len(doc) : OccursAt(doc, phrase, pos)

\* The phrases of a list of located findings.
PhrasesOf(findings) == [k \in DOMAIN findings |-> findings[k].biased_phrase]

\* C11: offset resolution is an exact, case-sensitive substring search: the
\* offset recorded for a phrase is the smallest position at which it stands
\* verbatim in the content, and exactly the phrases that stand verbatim in
\* the content are located (a phrase that differs in case is not).
C11_ExactFirstOccurrence ==
    pc = "done" =>
        /\ \A key \in DOMAIN result[2] :
              LET bucket == result[2][key]
              IN  /\ OccursAt(content, bucket.bias_phrase, bucket.index)
                  /\ \A pos \in 0..(bucket.index - 1) :
                        ~OccursAt(content, bucket.bias_phrase, pos)
        /\ PhrasesOf(result[1])
              = SelectSeq(Flatten(analyses), LAMBDA p : Occurs(content, p))

\* A run located a phrase that stands twice in the content and dropped a
\* phrase that stands in it only in the other letter case.
C11_Witness ==
    /\ pc = "done"
    /\ \E key \in DOMAIN result[2] :
          \E pos \in 1..Len(content) :
              /\ pos > result[2][key].index
              /\ OccursAt(content, result[2][key].bias_phrase, pos)
              /\ Len(result[2][key].bias_phrase) > 0
    /\ \E k \in DOMAIN Flatten(analyses) :
          /\ ~Occurs(content, Flatten(analyses)[k])
          /\ Occurs(lower(content), lower(Flatten(analyses)[k]))

\* ======================================================================
\* ContentProcessor.chunk_content (src/utils/wiki_parsing.py, lines 144-170)
\* ======================================================================
MaxTextLen == 10

NL == "\n"

\* The header marker, the line break, and a letter. The letter "I" alone
\* abbreviates the word "Introduction", so that a header can spell the
\* default section name within MaxTextLen; "II", "III" are other names.
SegAlphabet == {"#", NL, "I"}

Texts == UNION {[1..n -> SegAlphabet] : n \in 0..MaxTextLen}

\* The separator of paragraphs: a blank line.
BlankLine == <<NL, NL>>

\* "Introduction", the section of the content before the first header.
DefaultSection == <<"I">>

\* str.split(sep): cut at the occurrences of sep, found left to right
\* without overlap; a text without sep is its own single piece.
RECURSIVE split(_, _)
split(s, sep) ==
    LET at == find(s, sep)
    IN  IF at = -1 THEN <<s>>
        ELSE <<SubSeq(s, 1, at)>>
                \o split(SubSeq(s, at + Len(sep) + 1, Len(s)), sep)

\* sep.join(pieces)
RECURSIVE join(_, _)
join(sep, pieces) ==
    IF pieces = <<>> THEN <<>>
    ELSE IF Len(pieces) = 1 THEN pieces[1]
    ELSE pieces[1] \o sep \o join(sep, Tail(pieces))

\* str.startswith(prefix)
startswith(s, prefix) ==
    /\ Len(s) >= Len(prefix)
    /\ SubSeq(s, 1, Len(prefix)) = prefix

\* str.lstrip(chars)
RECURSIVE lstrip(_, _)
lstrip(s, chars) ==
    IF s # <<>> /\ s[1] \in chars THEN lstrip(Tail(s), chars) ELSE s

\* str.rstrip(chars)
RECURSIVE rstrip(_, _)
rstrip(s, chars) ==
    IF s # <<>> /\ s[Len(s)] \in chars
    THEN rstrip(SubSeq(s, 1, Len(s) - 1), chars) ELSE s

\* The characters str.strip() removes.
Whitespace == {" ", NL}

\* str.strip()
strip(s) == rstrip(lstrip(s, Whitespace), Whitespace)

\* Mutant of IsHeader: no paragraph is taken for a header.
IsHeaderNever(paragraph) == FALSE

\* Line 155: paragraph.startswith('#')
IsHeader(paragraph) == startswith(paragraph, <<"#">>)

\* Line 162: paragraph.lstrip('#').strip()
SectionTitle(paragraph) == strip(lstrip(paragraph, {"#"}))

\* Mutant of HasContent: a section is saved even without body blocks.
HasContentAlways(blocks) == TRUE

\* Lines 157 and 167: if current_content (a non-empty list)
HasContent(blocks) == blocks # <<>>

\* Mutant of StoreSection: a body already stored under the name is kept and
\* the new one is added after it.
StoreSectionMerging(secs, name, blocks) ==
    Put(secs, name,
        IF name \in DOMAIN secs
        THEN secs[name] \o BlankLine \o join(BlankLine, blocks)
        ELSE join(BlankLine, blocks))

\* Lines 158 and 168: sections[current_section] = '\n\n'.join(current_content)
StoreSection(secs, name, blocks) == Put(secs, name, join(BlankLine, blocks))

\* Mutant of AddBlock: the block replaces the ones collected before it.
AddBlockOverwriting(blocks, paragraph) == <<paragraph>>

\* Line 164: current_content.append(paragraph)
AddBlock(blocks, paragraph) == Append(blocks, paragraph)

SegInit ==
    /\ markdown_text \in Texts
    /\ seg_pc = "start"
    /\ paragraphs = <<>>
    /\ para = 0
    /\ sections = EmptyMap
    /\ current_section = <<>>
    /\ current_content = <<>>
    /\ AggIdle
    /\ EditIdle
    /\ SvcIdle

\* Lines 146-151: the locals, and the text split into paragraphs.
SegStart ==
    /\ seg_pc = "start"
    /\ sections' = EmptyMap
    /\ current_section' = DefaultSection
    /\ current_content' = <<>>
    /\ paragraphs' = split(markdown_text, BlankLine)
    /\ para' = 0
    /\ seg_pc' = "loop"
    /\ UNCHANGED <<markdown_text, aggVars, editVars, svcVars>>

\* Lines 155-162: a header closes the section collected so far and names
\* the next one.
SegHeader ==
    /\ seg_pc = "loop"
    /\ para < Len(paragraphs)
    /\ IsHeader(paragraphs[para + 1])
    /\ IF HasContent(current_content)
       THEN /\ sections' = StoreSection(sections, current_section, current_content)
            /\ current_content' = <<>>
       ELSE UNCHANGED <<sections, current_content>>
    /\ current_section' = SectionTitle(paragraphs[para + 1])
    /\ para' = para + 1
    /\ UNCHANGED <<markdown_text, seg_pc, paragraphs, aggVars, editVars, svcVars>>

\* Lines 163-164: any other paragraph is a body block of the current section.
SegBody ==
    /\ seg_pc = "loop"
    /\ para < Len(paragraphs)
    /\ ~IsHeader(paragraphs[para + 1])
    /\ current_content' = AddBlock(current_content, paragraphs[para + 1])
    /\ para' = para + 1
    /\ UNCHANGED <<markdown_text, seg_pc, paragraphs, sections,
                   current_section, aggVars, editVars, svcVars>>

\* Lines 166-170: the last section is saved and the mapping returned.
SegFinish ==
    /\ seg_pc = "loop"
    /\ para = Len(paragraphs)
    /\ sections' = IF HasContent(current_content)
                   THEN StoreSection(sections, current_section, current_content)
                   ELSE sections
    /\ seg_pc' = "done"
    /\ UNCHANGED <<markdown_text, paragraphs, para, current_section,
                   current_content, aggVars, editVars, svcVars>>

SegNext ==
    \/ SegStart
    \/ SegHeader
    \/ SegBody
    \/ SegFinish

SpecSeg == SegInit /\ [][SegNext]_vars

\* ------------------------------------------- the blocks of the input text
\* The blocks of the text, as the blank lines delimit them (line 151).
Blocks == paragraphs

\* Where sections start: 0 stands for the start of the text (the default
\* section), h >= 1 for the header that is block h.
Heads == {0} \cup {h \in 1..Len(Blocks) : IsHeader(Blocks[h])}

\* The name of the section starting at h.
NameAt(h) == IF h = 0 THEN DefaultSection ELSE SectionTitle(Blocks[h])

\* The number of body blocks that follow h before the next header.
RunLen(h) ==
    Cardinality({q \in (h + 1)..Len(Blocks) :
                    \A r \in (h + 1)..q : ~IsHeader(Blocks[r])})

\* The body blocks that follow h before the next header.
RunBlocks(h) == SubSeq(Blocks, h + 1, h + RunLen(h))

\* The section starts that are followed by at least one body block.
BodyHeads == {h \in Heads : RunLen(h) > 0}

\* The number of blocks of the text that are not headers.
NonHeaderBlocks == Cardinality({q \in 1..Len(Blocks) : ~IsHeader(Blocks[q])})

\* The body blocks held by a section body of the output.
BlocksOf(body) == split(body, BlankLine)

RECURSIVE SumBlocks(_, _)
SumBlocks(secs, names) ==
    IF names = {} THEN 0
    ELSE LET name == CHOOSE x \in names : TRUE
         IN  Len(BlocksOf(secs[name])) + SumBlocks(secs, names \ {name})

\* The number of body blocks in the sections of the output.
EmittedBlocks == SumBlocks(sections, DOMAIN sections)

\* C12: segmenting the empty text yields the empty mapping.
C12_EmptyTextEmptyMapping ==
    (seg_pc = "done" /\ markdown_text = <<>>) => sections = EmptyMap

\* C13 as stated: for every text, duplicate header names included, the body
\* blocks of the emitted sections are as many as the non-header blocks.
C13_NoBlockLost_Original ==
    seg_pc = "done" => EmittedBlocks = NonHeaderBlocks

\* No two sections that have body blocks bear the same name (the content
\* before the first header is the section of the default name).
DistinctSectionNames ==
    \A h1, h2 \in BodyHeads : h1 # h2 => NameAt(h1) # NameAt(h2)

\* C13 (amended): for every text in which no two sections with body blocks
\* bear the same name, the body blocks of the emitted sections are as many
\* as the non-header blocks of the text.
C13_NoBlockLost ==
    (seg_pc = "done" /\ DistinctSectionNames) => EmittedBlocks = NonHeaderBlocks

\* A text with two sections of different names, one of them of two blocks.
C13_Witness ==
    /\ seg_pc = "done"
    /\ DistinctSectionNames
    /\ Cardinality(BodyHeads) >= 2
    /\ \E h \in BodyHeads : RunLen(h) >= 2

\* The last section start of the given name that has body blocks.
LastBodyHead(name) ==
    CHOOSE h \in BodyHeads :
        /\ NameAt(h) = name
        /\ \A g \in BodyHeads : NameAt(g) = name => g <= h

\* C14: a name borne by several headers with body blocks is mapped to the
\* body blocks that follow the last of them, those alone.
C14_LastWriteWins ==
    seg_pc = "done" =>
        \A h \in BodyHeads :
            /\ NameAt(h) \in DOMAIN sections
            /\ sections[NameAt(h)]
                  = join(BlankLine, RunBlocks(LastBodyHead(NameAt(h))))

\* Two headers of one name, each followed by body blocks, not the same ones.
C14_Witness ==
    /\ seg_pc = "done"
    /\ \E h1, h2 \in BodyHeads :
          /\ 1 <= h1
          /\ h1 < h2
          /\ NameAt(h1) = NameAt(h2)
          /\ RunBlocks(h1) # RunBlocks(h2)

\* C15: only sections with body blocks are in the output, so a header
\* followed at once by a header or by the end of the text adds no entry;
\* and no header block is among the blocks of a section body.
C15_NoEmptySectionNoHeaderInBody ==
    seg_pc = "done" =>
        /\ DOMAIN sections = {NameAt(h) : h \in BodyHeads}
        /\ \A name \in DOMAIN sections :
              \A q \in DOMAIN BlocksOf(sections[name]) :
                  ~IsHeader(BlocksOf(sections[name])[q])

\* A header without body blocks, of a name no other section bears, in a text
\* that has a section with body blocks.
C15_Witness ==
    /\ seg_pc = "done"
    /\ sections # EmptyMap
    /\ \E h \in Heads :
          /\ h >= 1
          /\ RunLen(h) = 0
          /\ NameAt(h) \notin DOMAIN sections

\* ======================================================================
\* Investigator.create_final_content (src/main.py, lines 146-187)
\* ======================================================================
MaxEdits == 2
MaxAddLen == 1
MaxFinalLen == 3

\* SuggestedCorrection, reduced to the two texts an edit consists of.
Corrections ==
    [text_removed : Phrases \ {<<>>}, text_added : StringsUpTo(MaxAddLen)]

\* passage_analysis.bias_instance, each instance reduced to its correction.
CorrectionLists == UNION {[1..k -> Corrections] : k \in 0..MaxEdits}

\* What the language model can answer as FinalContent.final_content.
FinalTexts == StringsUpTo(MaxFinalLen)

EditInit ==
    /\ original_content \in Documents
    /\ corrections \in CorrectionLists
    /\ edit_pc = "call"
    /\ final_content = <<>>
    /\ AggIdle
    /\ SegIdle
    /\ SvcIdle

\* Lines 147-187: the corrections and the content are put into a prompt and
\* the parsed answer of the language model is returned as it is. The code
\* computes no part of the corrected text itself.
ModelAnswers ==
    /\ edit_pc = "call"
    /\ final_content' \in FinalTexts
    /\ edit_pc' = "done"
    /\ UNCHANGED <<original_content, corrections, aggVars, segVars, svcVars>>

\* Lines 147-186: the call raises; nothing catches it.
ModelRaises ==
    /\ edit_pc = "call"
    /\ edit_pc' = "raised"
    /\ UNCHANGED <<original_content, corrections, final_content, aggVars, segVars, svcVars>>

EditNext ==
    \/ ModelAnswers
    \/ ModelRaises

SpecEdit == EditInit /\ [][EditNext]_vars

\* ----------------------------------------------- what applying edits means
\* Where edit e starts in the original document (-1: its phrase is absent).
StartOf(e) == find(original_content, corrections[e].text_removed)

\* The first position after the span of edit e.
EndOf(e) == StartOf(e) + Len(corrections[e].text_removed)

\* The phrase of every edit of the batch stands in the original document.
AllResolved == \A e \in DOMAIN corrections : StartOf(e) # -1

\* The spans of two edits of the batch intersect.
SomeOverlap ==
    \E e1, e2 \in DOMAIN corrections :
        /\ e1 # e2
        /\ StartOf(e1) # -1
        /\ StartOf(e2) # -1
        /\ StartOf(e1) < EndOf(e2)
        /\ StartOf(e2) < EndOf(e1)

\* The document with the spans of the given edits replaced by their inserted
\* texts, the rightmost span first, so that no offset to its left moves.
RECURSIVE Spliced(_, _)
Spliced(doc, edits) ==
    IF edits = {} THEN doc
    ELSE LET e == CHOOSE x \in edits : \A y \in edits : StartOf(y) <= StartOf(x)
         IN  Spliced(SubSeq(doc, 1, StartOf(e))
                        \o corrections[e].text_added
                        \o SubSeq(doc, EndOf(e) + 1, Len(doc)),
                     edits \ {e})

\* C16: a batch whose phrases all resolve to disjoint spans yields the
\* original document with each span replaced by its edit's inserted text,
\* all else copied verbatim, whatever the order of the edits in the list.
C16_SpliceAgainstOriginal ==
    (edit_pc = "done" /\ corrections # <<>> /\ AllResolved /\ ~SomeOverlap) =>
        final_content = Spliced(original_content, DOMAIN corrections)

\* C17: if the spans of two edits intersect, the caller gets the original
\* document, with no edit applied.
C17_OverlapRejected ==
    (edit_pc = "done" /\ SomeOverlap) => final_content = original_content

\* C18: if the phrase of an edit is not in the original document, the caller
\* gets the original document, with no edit applied.
C18_AbsentPhraseRejectsBatch ==
    (edit_pc = "done" /\ ~AllResolved) => final_content = original_content

\* C19: the empty edit list returns the document unchanged.
C19_EmptyBatchIdentity ==
    (edit_pc = "done" /\ corrections = <<>>) => final_content = original_content

\* ------------------------------------------------------------ panel merge
\* The buckets of the returned heatmap that hold the given id.
BucketsHolding(id) == {key \in DOMAIN result[2] : id \in IdsOf(result[2][key])}

\* C20: two sources (here: two samples, one finding each) that report the
\* same phrase at the same offset share one bucket, which holds their two
\* distinct ids; two sources that report the same phrase text (the same
\* heatmap key) at two different offsets have a bucket each.
C20_PanelMerge ==
    (/\ pc = "done"
     /\ runs = 2
     /\ Len(analyses[1]) = 1
     /\ Len(analyses[2]) = 1
     /\ Len(result[1]) = 2
     /\ lower(analyses[1][1]) = lower(analyses[2][1]))
    => LET id1 == result[1][1].bias_id
           id2 == result[1][2].bias_id
       IN  IF find(content, analyses[1][1]) = find(content, analyses[2][1])
           THEN /\ id1 # id2
                /\ \E key \in DOMAIN result[2] :
                      {id1, id2} \subseteq IdsOf(result[2][key])
           ELSE /\ BucketsHolding(id1) # {}
                /\ BucketsHolding(id2) # {}
                /\ BucketsHolding(id1) \cap BucketsHolding(id2) = {}

\* ============================================================ the service
\* WikipediaService (app/services/wikipedia_service.py) behind the routes of
\* app/api/routes/wikipedia.py. Every request has a database session of its
\* own (get_db); a coroutine runs without interruption up to its awaited
\* fetch (asyncio.to_thread) and from the fetch's answer to its response.

\* ---------------------------------------------------------------- bounds
MaxRequests == 3

\* ------------------------------------------------------------------ URLs
\* A URL as urlparse reads it.
Url(scheme, netloc, path) == [scheme |-> scheme, netloc |-> netloc, path |-> path]

\* The URLs requests are made with: two articles, a page of another site,
\* and a Wikipedia URL whose path holds "/wiki/" but not in first place.
Urls ==
    {Url("https", "en.wikipedia.org", "/wiki/A"),
     Url("https", "en.wikipedia.org", "/wiki/B"),
     Url("https", "example.org", "/wiki/A"),
     Url("https", "en.wikipedia.org", "/w/wiki/A")}

\* The url of a request that carries none.
NoUrl == Url("", "", "")

\* The network locations of Urls in which 'wikipedia.org' occurs.
WikipediaHosts == {"en.wikipedia.org"}

\* The paths of Urls in which '/wiki/' occurs.
PathsHoldingWiki == {"/wiki/A", "/wiki/B", "/w/wiki/A"}

\* The paths of Urls whose first part is 'wiki' and that have a second part.
PathsOfArticles == {"/wiki/A", "/wiki/B"}

\* WikipediaProcessor.validate_url
validate_url(url) ==
    /\ url.scheme \in {"http", "https"}
    /\ url.netloc \in WikipediaHosts
    /\ url.path \in PathsHoldingWiki

\* WikipediaProcessor.extract_page_title_from_url succeeds (raises nothing).
TitleExtractable(url) ==
    /\ url.netloc \in WikipediaHosts
    /\ url.path \in PathsOfArticles

\* ------------------------------------------------------- fetched content
\* What awaiting wiki_processor.fetch_content can give: a WikipediaContent
\* (reduced to basic_info.title and basic_info.text), None, or an exception.
Fetched(kind, title, text) == [kind |-> kind, title |-> title, text |-> text]

FetchedNone == Fetched("None", "", "")

FetchRaised == Fetched("raised", "", "")

\* No fetch has answered.
NotFetched == Fetched("", "", "")

\* Two versions of an article.
FetchedContents ==
    {Fetched("content", "T1", "c1"), Fetched("content", "T2", "c2")}

\* fetch_content(url): the title extraction or the network may raise, the
\* page may not exist (None), or the page is returned.
FetchOutcomes(url) ==
    {FetchRaised} \cup
    (IF TitleExtractable(url) THEN {FetchedNone} \cup FetchedContents ELSE {})

\* Mutant of FetchFailed: a missing page is taken for content.
FetchFailedNever(content_) == FALSE

\* "if not content" (lines 42 and 74).
FetchFailed(content_) == content_.kind = "None"

\* ------------------------------------------------------------------ rows
\* A WikipediaPage row (app/models/wikipedia.py).
WikipediaPage(id, url, title, content_, last_fetched) ==
    [id |-> id, url |-> url, title |-> title, content |-> content_,
     last_fetched |-> last_fetched]

\* Python's None where a page is expected.
NonePage == WikipediaPage(0, NoUrl, "", "", 0)

\* query(WikipediaPage).filter(WikipediaPage.url == url).first()
PageByUrl(table, url) ==
    LET ids == {id \in DOMAIN table : table[id].url = url}
    IN  IF ids = {} THEN NonePage ELSE table[Min(ids)]

\* Mutant of get_page: the query is not filtered by id.
get_pageUnfiltered(table, page_id) ==
    IF DOMAIN table # {} THEN table[Min(DOMAIN table)] ELSE NonePage

\* WikipediaService.get_page
get_page(table, page_id) ==
    IF page_id \in DOMAIN table THEN table[page_id] ELSE NonePage

\* ---------------------------------------------------------------- errors
\* An exception: its class, its message (without the interpolated values)
\* and the status an HTTPException carries.
Error(type, message, status_code) ==
    [type |-> type, message |-> message, status_code |-> status_code]

NoError == Error("", "", 0)

\* WikipediaError(f"Invalid Wikipedia URL: {url}")
InvalidUrlError == Error("WikipediaError", "Invalid Wikipedia URL", 0)

\* WikipediaError(f"Failed to fetch content from {url}")
FailedToFetchError == Error("WikipediaError", "Failed to fetch content from", 0)

\* WikipediaError(f"Failed to refresh content from {page.url}")
FailedToRefreshError ==
    Error("WikipediaError", "Failed to refresh content from", 0)

\* WikipediaError(f"Wikipedia page with ID {page_id} not found")
PageNotFoundError == Error("WikipediaError", "Wikipedia page with ID not found", 0)

\* The Exception fetch_content raises ("Error fetching Wikipedia content").
FetchError == Error("Exception", "Error fetching Wikipedia content", 0)

\* The IntegrityError of a commit that breaks the unique index on url.
IntegrityError == Error("Exception", "duplicate key value", 0)

\* HTTPException(status_code=...)
HTTPException(status_code) == Error("HTTPException", "", status_code)

\* The messages above in which "not found" occurs, in lower case.
MessagesHoldingNotFound == {"Wikipedia page with ID not found"}

\* "not found" in str(e).lower()
SaysNotFound(error) == error.message \in MessagesHoldingNotFound

\* Whether "except cls" catches the error: every exception class derives
\* from Exception.
Catches(cls, error) == cls = "Exception" \/ error.type = cls

\* ---------------------------------------------------------------- routes
\* What a handler's try statement does with the error raised in its body:
\* "except WikipediaError" answers on_wikipedia_error, "except Exception"
\* answers 500.
Dispatch(error, on_wikipedia_error) ==
    IF Catches("WikipediaError", error) THEN on_wikipedia_error
    ELSE IF Catches("Exception", error) THEN 500
    ELSE error.status_code

\* POST /wikipedia/pages (lines 21-44): the status of the response, given
\* what service.process_url raised or returned.
process_wikipedia_url(raised, returned) ==
    IF raised = NoError THEN 201 ELSE Dispatch(raised, 400)

\* GET /wikipedia/pages/{page_id} (lines 46-58).
get_wikipedia_page(returned) ==
    IF returned = NonePage THEN 404 ELSE 200

\* PUT /wikipedia/pages/{page_id}/refresh (lines 60-83): the HTTPException
\* of line 69 is raised inside the try statement.
refresh_wikipedia_page(raised, returned) ==
    LET in_try == IF raised # NoError THEN raised
                  ELSE IF returned = NonePage THEN HTTPException(404)
                  ELSE NoError
    IN  IF in_try = NoError THEN 200 ELSE Dispatch(in_try, 400)

\* GET /wikipedia/pages/{page_id}/sections (lines 85-108).
get_wikipedia_page_sections(raised) ==
    IF raised = NoError THEN 200
    ELSE Dispatch(raised, IF SaysNotFound(raised) THEN 404 ELSE 400)

\* The response of the route of a call, given how the service call ended.
Respond(op, raised, returned) ==
    CASE op = "process_wikipedia_url"       -> process_wikipedia_url(raised, returned)
      [] op = "get_wikipedia_page"          -> get_wikipedia_page(returned)
      [] op = "refresh_wikipedia_page"      -> refresh_wikipedia_page(raised, returned)
      [] op = "get_wikipedia_page_sections" -> get_wikipedia_page_sections(raised)

\* ----------------------------------------------------------------- calls
\* A request: its route and arguments, where its coroutine stands
\* ("process_fetch" and "refresh_fetch": suspended at the awaited fetch),
\* the row its session loaded, what its fetch answered, what the service did
\* for it, in order, and how the service call and the route ended.
Call(op, url, page_id, pc_, loaded, fetched, events, raised, returned) ==
    [op |-> op, url |-> url, page_id |-> page_id, pc |-> pc_,
     loaded |-> loaded, fetched |-> fetched, events |-> events, raised |-> raised,
     returned |-> returned,
     status |-> IF pc_ = "done" THEN Respond(op, raised, returned) ELSE 0]

\* The page ids requests are made with; 999 is never assigned.
PageIds == {1, 2, 999}

\* Mutant of BreaksUniqueUrl: the column is not declared unique.
BreaksUniqueUrlNever(table, url) == FALSE

\* The unique index on wikipedia_pages.url (models/wikipedia.py line 11)
\* refuses the row.
BreaksUniqueUrl(table, url) == \E id \in DOMAIN table : table[id].url = url

\* refresh_page up to its awaited fetch (lines 67-72), for the route op.
RefreshBegin(op, url, page_id, events) ==
    LET page == get_page(pages, page_id)
    IN  IF page = NonePage
        THEN Call(op, url, page_id, "done", NonePage, NotFetched,
                  events \o <<"query">>, NoError, NonePage)
        ELSE Call(op, url, page_id, "refresh_fetch", page, NotFetched,
                  events \o <<"query", "fetch">>, NoError, NonePage)

\* process_url up to its awaited fetch (lines 32-40).
ProcessBegin(op, url) ==
    LET existing_page == PageByUrl(pages, url)
    IN  IF existing_page # NonePage
        THEN RefreshBegin(op, url, existing_page.id, <<"query">>)
        ELSE IF ~validate_url(url)
        THEN Call(op, url, 0, "done", NonePage, NotFetched,
                  <<"query", "validate">>,
                  InvalidUrlError, NonePage)
        ELSE Call(op, url, 0, "process_fetch", NonePage, NotFetched,
                  <<"query", "validate", "fetch">>, NoError, NonePage)

\* The call with its coroutine finished.
Finish(call, content_, events, raised, returned) ==
    Call(call.op, call.url, call.page_id, "done", call.loaded, content_,
         call.events \o events, raised, returned)

\* The error of the content conversion of get_sections, when it raises.
ConversionError == Error("Exception", "conversion failed", 0)

\* What get_sections can raise for a stored page (lines 95-99): nothing, or
\* what convert_to_markdown and chunk_content raise.
SectionsOutcomes == {NoError, ConversionError}

\* What a service double handed to the sections route raises
\* (tests/unit/api/test_wikipedia_routes.py, lines 163-165).
DoubleErrors ==
    {Error(type, message, 0) :
        type \in {"WikipediaError", "Exception"},
        message \in {"Wikipedia page with ID not found", "conversion failed"}}

\* Mutant of NewRow: the fetched title and text change places.
NewRowSwapped(id, url, content_, now) ==
    WikipediaPage(id, url, content_.text, content_.title, now)

\* Lines 46-51: the row of a new page.
NewRow(id, url, content_, now) ==
    WikipediaPage(id, url, content_.title, content_.text, now)

\* Lines 78-82: the attributes given a value other than the one the session
\* loaded are written by the commit; the others keep the row's value.
UpdatedRow(row, loaded, content_, now) ==
    [row EXCEPT !.title        = IF content_.title # loaded.title
                                 THEN content_.title ELSE @,
                !.content      = IF content_.text # loaded.content
                                 THEN content_.text ELSE @,
                !.last_fetched = now]

\* --------------------------------------------------------------- actions
SvcInit ==
    /\ pages = EmptyMap
    /\ next_id = 1
    /\ clock = 0
    /\ calls = <<>>
    /\ AggIdle
    /\ SegIdle
    /\ EditIdle

\* POST /wikipedia/pages: process_url runs up to its awaited fetch.
ProcessUrlRoute ==
    /\ Len(calls) < MaxRequests
    /\ \E url \in Urls :
          calls' = Append(calls, ProcessBegin("process_wikipedia_url", url))
    /\ UNCHANGED <<pages, next_id, clock, aggVars, segVars, editVars>>

\* PUT /wikipedia/pages/{page_id}/refresh: refresh_page runs up to its
\* awaited fetch, or returns None.
RefreshRoute ==
    /\ Len(calls) < MaxRequests
    /\ \E page_id \in PageIds :
          calls' = Append(calls,
                      RefreshBegin("refresh_wikipedia_page", NoUrl, page_id, <<>>))
    /\ UNCHANGED <<pages, next_id, clock, aggVars, segVars, editVars>>

\* GET /wikipedia/pages/{page_id}
GetPageRoute ==
    /\ Len(calls) < MaxRequests
    /\ \E page_id \in PageIds :
          calls' = Append(calls,
                      Call("get_wikipedia_page", NoUrl, page_id, "done", NonePage,
                           NotFetched,
                           <<"query">>, NoError, get_page(pages, page_id)))
    /\ UNCHANGED <<pages, next_id, clock, aggVars, segVars, editVars>>

\* GET /wikipedia/pages/{page_id}/sections with WikipediaService.get_sections
\* (lines 91-99).
SectionsRoute ==
    /\ Len(calls) < MaxRequests
    /\ \E page_id \in PageIds :
       \E raised \in IF get_page(pages, page_id) = NonePage
                     THEN {PageNotFoundError} ELSE SectionsOutcomes :
          calls' = Append(calls,
                      Call("get_wikipedia_page_sections", NoUrl, page_id, "done",
                           get_page(pages, page_id), NotFetched, <<"query">>, raised, NonePage))
    /\ UNCHANGED <<pages, next_id, clock, aggVars, segVars, editVars>>

\* GET /wikipedia/pages/{page_id}/sections with a service whose get_sections
\* raises the given error.
SectionsRouteWithDouble ==
    /\ Len(calls) < MaxRequests
    /\ \E page_id \in PageIds, raised \in DoubleErrors :
          calls' = Append(calls,
                      Call("get_wikipedia_page_sections", NoUrl, page_id, "done",
                           NonePage, NotFetched, <<>>, raised, NonePage))
    /\ UNCHANGED <<pages, next_id, clock, aggVars, segVars, editVars>>

\* process_url from the answer of its fetch to the response (lines 40-57).
ProcessFetched(c, content_) ==
    LET call == calls[c]
        page == NewRow(next_id, call.url, content_, clock)
    IN  IF content_.kind = "raised"
        THEN /\ calls' = [calls EXCEPT ![c] = Finish(call, content_, <<>>, FetchError, NonePage)]
             /\ UNCHANGED <<pages, next_id, clock>>
        ELSE IF FetchFailed(content_)
        THEN /\ calls' = [calls EXCEPT ![c] =
                            Finish(call, content_, <<>>, FailedToFetchError, NonePage)]
             /\ UNCHANGED <<pages, next_id, clock>>
        ELSE IF BreaksUniqueUrl(pages, call.url)
        THEN /\ calls' = [calls EXCEPT ![c] =
                            Finish(call, content_, <<"add", "commit">>, IntegrityError, NonePage)]
             /\ next_id' = next_id + 1
             /\ clock' = clock + 1
             /\ UNCHANGED pages
        ELSE /\ pages' = Put(pages, next_id, page)
             /\ calls' = [calls EXCEPT ![c] =
                            Finish(call, content_, <<"add", "commit">>, NoError, page)]
             /\ next_id' = next_id + 1
             /\ clock' = clock + 1

ProcessUrlFetched ==
    /\ \E c \in 1..Len(calls) :
          /\ calls[c].pc = "process_fetch"
          /\ \E content_ \in FetchOutcomes(calls[c].url) : ProcessFetched(c, content_)
    /\ UNCHANGED <<aggVars, segVars, editVars>>

\* refresh_page from the answer of its fetch to the response (lines 72-85).
RefreshFetched(c, content_) ==
    LET call == calls[c]
        page == UpdatedRow(pages[call.loaded.id], call.loaded, content_, clock)
    IN  IF content_.kind = "raised"
        THEN /\ calls' = [calls EXCEPT ![c] = Finish(call, content_, <<>>, FetchError, NonePage)]
             /\ UNCHANGED <<pages, clock>>
        ELSE IF FetchFailed(content_)
        THEN /\ calls' = [calls EXCEPT ![c] =
                            Finish(call, content_, <<>>, FailedToRefreshError, NonePage)]
             /\ UNCHANGED <<pages, clock>>
        ELSE /\ pages' = Put(pages, call.loaded.id, page)
             /\ calls' = [calls EXCEPT ![c] =
                            Finish(call, content_, <<"commit">>, NoError, page)]
             /\ clock' = clock + 1

RefreshPageFetched ==
    /\ \E c \in 1..Len(calls) :
          /\ calls[c].pc = "refresh_fetch"
          /\ \E content_ \in FetchOutcomes(calls[c].loaded.url) :
                RefreshFetched(c, content_)
    /\ UNCHANGED <<next_id, aggVars, segVars, editVars>>

SvcNext ==
    \/ ProcessUrlRoute
    \/ RefreshRoute
    \/ GetPageRoute
    \/ SectionsRoute
    \/ SectionsRouteWithDouble
    \/ ProcessUrlFetched
    \/ RefreshPageFetched

SpecSvc == SvcInit /\ [][SvcNext]_vars

\* ===================================================== claims on the service
\* The calls whose response has been sent.
Answered == {c \in 1..Len(calls) : calls[c].pc = "done"}

\* C21: a refresh request, PUT /wikipedia/pages/{page_id}/refresh, for a
\* page id that is not stored (service.refresh_page returned None) is
\* answered with HTTP 404.
C21_RefreshOfMissingPageIs404 ==
    \A c \in Answered :
       (/\ calls[c].op = "refresh_wikipedia_page"
        /\ calls[c].raised = NoError
        /\ calls[c].returned = NonePage)
       => calls[c].status = 404

\* C22: a sections request, GET /wikipedia/pages/{page_id}/sections, whose
\* get_sections fails with an error whose message says the page was not
\* found is answered with HTTP 404, whatever the class of the error.
C22_SectionsNotFoundIs404 ==
    \A c \in Answered :
       (/\ calls[c].op = "get_wikipedia_page_sections"
        /\ calls[c].raised # NoError
        /\ SaysNotFound(calls[c].raised))
       => calls[c].status = 404

\* How many times the event occurs in the sequence.
Count(events, event) == Cardinality({k \in 1..Len(events) : events[k] = event})

\* The step is the one in which call c goes from the given suspension point
\* to its response.
Resumes(c, pc_) ==
    /\ c \in 1..Len(calls)
    /\ calls[c].pc = pc_
    /\ calls'[c].pc = "done"

\* The table gains exactly the row of the given id and keeps every other row.
AddsExactly(id) ==
    /\ id \notin DOMAIN pages
    /\ DOMAIN pages' = DOMAIN pages \cup {id}
    /\ \A k \in DOMAIN pages : pages'[k] = pages[k]

C24_FailedFetchLeavesStore ==
    [][\A c \in 1..Len(calls) :
          (/\ Resumes(c, "process_fetch")
           /\ calls'[c].fetched = FetchedNone)
          => /\ calls'[c].raised = FailedToFetchError
             /\ pages' = pages
             /\ Count(calls'[c].events, "add") = 0
             /\ Count(calls'[c].events, "commit") = 0]_vars

\* A call of process_url has failed on a fetch without content.
C24_Witness ==
    \E c \in Answered :
       /\ calls[c].op = "process_wikipedia_url"
       /\ calls[c].page_id = 0
       /\ calls[c].fetched = FetchedNone
       /\ calls[c].raised = FailedToFetchError

\* Every occurrence of the event `later` comes after one of `earlier`.
Precedes(events, earlier, later) ==
    \A k \in 1..Len(events) :
       events[k] = later => \E m \in 1..(k - 1) : events[m] = earlier

\* C25: in every call of process_url the URL is validated before any content
\* is fetched and content is fetched before anything is saved; no call
\* issues a fetch without having validated the URL first.
C25_ValidateFetchSaveOrder ==
    \A c \in 1..Len(calls) :
       calls[c].op = "process_wikipedia_url"
       => /\ Precedes(calls[c].events, "validate", "fetch")
          /\ Precedes(calls[c].events, "fetch", "add")
          /\ Precedes(calls[c].events, "fetch", "commit")

\* ============================================= claims on the aggregation
\* C26: at every point of an aggregation run, whatever the number of
\* completed samples, every id in a bucket's contribution list is the id of
\* a finding of the result list whose phrase normalizes to the bucket's key
\* and whose resolved offset is the bucket's recorded offset. (Stated for
\* the buckets of phrases that are more than whitespace.)
C26_BucketIdsPointAtTheirFindings ==
    \A key \in {q \in DOMAIN bias_phrase_heatmap : Normalized(q) # <<>>} :
       \A id \in IdsOf(bias_phrase_heatmap[key]) :
          \E k \in DOMAIN bias_instances :
             /\ bias_instances[k].bias_id = id
             /\ Normalized(bias_instances[k].biased_phrase) = key
             /\ find(content, bias_instances[k].biased_phrase)
                   = bias_phrase_heatmap[key].index

\* The step processes a located finding whose key has a bucket recorded at
\* the finding's offset: the finding joins that bucket.
JoinStep ==
    /\ pc = "loop"
    /\ j < Len(analysis)
    /\ j' = j + 1
    /\ find(content, analysis[j + 1]) # -1
    /\ HeatmapKey(analysis[j + 1]) \in DOMAIN bias_phrase_heatmap
    /\ bias_phrase_heatmap[HeatmapKey(analysis[j + 1])].index
          = find(content, analysis[j + 1])

\* The finding of the result list that bears the id.
FindingOf(instances, id) ==
    instances[CHOOSE k \in DOMAIN instances : instances[k].bias_id = id]

\* C27: when a resolved finding joins an existing bucket, the bucket's
\* occurrence_count grows by exactly one and the finding's id is appended at
\* the end of its contribution list; the bucket's canonical phrase and
\* recorded offset stay those of the finding that created the bucket, and no
\* other bucket changes.
C27_JoinIsCountAndAppendOnly ==
    [][JoinStep =>
          LET key    == HeatmapKey(analysis[j + 1])
              before == bias_phrase_heatmap[key]
              after  == bias_phrase_heatmap'[key]
              joined == bias_instances'[Len(bias_instances')]
              first  == FindingOf(bias_instances', after.bias_instances[1])
          IN  /\ Len(bias_instances') = Len(bias_instances) + 1
              /\ joined.biased_phrase = analysis[j + 1]
              /\ DOMAIN bias_phrase_heatmap' = DOMAIN bias_phrase_heatmap
              /\ after.occurrence_count = before.occurrence_count + 1
              /\ after.bias_instances = Append(before.bias_instances, joined.bias_id)
              /\ after.bias_phrase = before.bias_phrase
              /\ after.index = before.index
              /\ after.bias_phrase = first.biased_phrase
              /\ after.index = find(content, first.biased_phrase)
              /\ \A other \in DOMAIN bias_phrase_heatmap \ {key} :
                    bias_phrase_heatmap'[other] = bias_phrase_heatmap[other]]_vars

\* A finding has joined a bucket while another bucket exists.
C27_Witness ==
    /\ Cardinality(DOMAIN bias_phrase_heatmap) >= 2
    /\ \E key \in DOMAIN bias_phrase_heatmap :
          /\ bias_phrase_heatmap[key].occurrence_count = 2
          /\ Len(bias_phrase_heatmap[key].bias_instances) = 2

\* C30: at every point of an aggregation run the bias_id of each finding of
\* the result list is its zero-based position in the list, so that an id
\* stored in a bucket indexes the finding it stands for.
C30_BiasIdIsListPosition ==
    /\ \A k \in DOMAIN bias_instances : bias_instances[k].bias_id = k - 1
    /\ \A key \in DOMAIN bias_phrase_heatmap :
          \A id \in IdsOf(bias_phrase_heatmap[key]) :
             /\ id + 1 \in DOMAIN bias_instances
             /\ lower(bias_instances[id + 1].biased_phrase) = key

\* Two findings have been located after a finding that was not.
C30_Witness ==
    /\ pc = "loop"
    /\ i = 1
    /\ j = 2
    /\ Len(analyses) = 2
    /\ Len(analyses[1]) >= 1
    /\ find(content, analyses[1][1]) = -1
    /\ Len(bias_instances) = 2
    /\ bias_phrase_heatmap # EmptyMap

\* No two rows of the table have the same url.
UniqueUrls(table) ==
    \A a, b \in DOMAIN table : a # b => table[a].url # table[b].url

\* The step receives a process_url request for a URL that is stored.
ProcessOfStoredUrl ==
    /\ Len(calls') = Len(calls) + 1
    /\ calls'[Len(calls')].op = "process_wikipedia_url"
    /\ PageByUrl(pages, calls'[Len(calls')].url) # NonePage

\* C28: after any sequence and any interleaving of process_url calls, each
\* of which may be suspended at its awaited fetch, no two stored pages have
\* the same URL: a call for a URL that is already stored refreshes the
\* stored page and adds no page.
C28_NoTwoPagesShareUrl ==
    [][/\ UniqueUrls(pages')
       /\ ProcessOfStoredUrl
          => /\ calls'[Len(calls')].pc = "refresh_fetch"
             /\ calls'[Len(calls')].page_id
                   = PageByUrl(pages, calls'[Len(calls')].url).id
       /\ \A c \in 1..Len(calls) :
             (/\ calls[c].op = "process_wikipedia_url"
              /\ calls'[c] # calls[c]
              /\ PageByUrl(pages, calls[c].url) # NonePage)
             => /\ DOMAIN pages' = DOMAIN pages
                /\ calls[c].page_id # 0
                   => \/ calls'[c].raised # NoError /\ pages' = pages
                      \/ /\ calls'[c].returned = pages'[calls[c].page_id]
                         /\ calls'[c].returned.url = calls[c].url
                         /\ calls'[c].returned.last_fetched = clock
                         /\ Count(calls'[c].events, "commit") = 1]_vars

\* Two calls of process_url for one URL overlapped, so that the save of the
\* second was refused, and a later call for that URL refreshed the page.
C28_Witness ==
    \E a, b \in Answered :
       /\ calls[a].op = "process_wikipedia_url"
       /\ calls[a].raised = IntegrityError
       /\ calls[b].op = "process_wikipedia_url"
       /\ calls[b].url = calls[a].url
       /\ calls[b].page_id # 0
       /\ Count(calls[b].events, "commit") = 1
       /\ calls[b].raised = NoError

\* The step receives a refresh request for a page id that is not stored.
RefreshOfMissingPage ==
    /\ Len(calls') = Len(calls) + 1
    /\ calls'[Len(calls')].op = "refresh_wikipedia_page"
    /\ calls'[Len(calls')].page_id \notin DOMAIN pages

\* C29: when refresh_page is called for a stored page and its fetch returns
\* no content, it fails with a WikipediaError, the stored page keeps its
\* title, content and last_fetched, and nothing is committed; when the page
\* id is not stored it returns None without fetching.
C29_FailedRefreshLeavesPage ==
    [][/\ \A c \in 1..Len(calls) :
             (/\ Resumes(c, "refresh_fetch")
              /\ calls'[c].fetched = FetchedNone)
             => /\ calls'[c].raised = FailedToRefreshError
                /\ pages' = pages
                /\ Count(calls'[c].events, "commit") = 0
       /\ RefreshOfMissingPage
          => /\ calls'[Len(calls')].pc = "done"
             /\ calls'[Len(calls')].raised = NoError
             /\ calls'[Len(calls')].returned = NonePage
             /\ Count(calls'[Len(calls')].events, "fetch") = 0
             /\ pages' = pages]_vars

\* A refresh of a stored page has failed on a fetch without content, and a
\* refresh of a page id that is not stored has returned None.
C29_Witness ==
    \E a, b \in Answered :
       /\ calls[a].op = "refresh_wikipedia_page"
       /\ calls[a].fetched = FetchedNone
       /\ calls[a].raised = FailedToRefreshError
       /\ calls[b].op = "refresh_wikipedia_page"
       /\ calls[b].page_id \notin DOMAIN pages
       /\ calls[b].returned = NonePage
       /\ calls[b].raised = NoError

====
